---- MODULE Spec2Model ----
(***************************************************************************)
(* Flag submission validator, audit log and flag normaliser of r8          *)
(* (src/r8/util.py).                                                       *)
(*                                                                         *)
(* The store is the SQLite database behind r8.db.  sqlite3_connect opens   *)
(* it with the default isolation level of Python's sqlite3 module: a       *)
(* SELECT opens no transaction, an INSERT opens one implicitly, and        *)
(* leaving a `with r8.db:` block commits.  r8.log has its own              *)
(* `with r8.db:` block, so the event it inserts is committed when log      *)
(* returns, before submit_flag goes on.  Every SQL statement is therefore  *)
(* one atomic step on the committed store, and the steps of calls made     *)
(* through different connections (workers) interleave.                     *)
(***************************************************************************)
EXTENDS Integers, Sequences, FiniteSets, TLC

\* ------------------------------------------------------------------ bounds
MaxCalls == 2
MaxTime == 1
MaxApply == 2

\* ------------------------------------------------------- strings as chars
\* A Python str is a sequence of one-character strings.
HexLen == 32

HexDigits ==
  {"0", "1", "2", "3", "4", "5", "6", "7", "8", "9", "a", "b", "c", "d", "e", "f"}

UpperAlpha ==
  <<"A", "B", "C", "D", "E", "F", "G", "H", "I", "J", "K", "L", "M",
    "N", "O", "P", "Q", "R", "S", "T", "U", "V", "W", "X", "Y", "Z">>

LowerAlpha ==
  <<"a", "b", "c", "d", "e", "f", "g", "h", "i", "j", "k", "l", "m",
    "n", "o", "p", "q", "r", "s", "t", "u", "v", "w", "x", "y", "z">>

\* str.lower(), one character
LowerChar(c) ==
  IF \E i \in 1..Len(UpperAlpha) : UpperAlpha[i] = c
    THEN LowerAlpha[CHOOSE i \in 1..Len(UpperAlpha) : UpperAlpha[i] = c]
    ELSE c

\* flag.replace(" ", "").lower()
Filtered(flag) ==
  LET kept == SelectSeq(flag, LAMBDA c : c # " ")
  IN  [i \in 1..Len(kept) |-> LowerChar(kept[i])]

\* the start positions at which [0-9a-f]{32} matches
MatchStarts(s) ==
  {i \in 1..Len(s) : /\ i + HexLen - 1 <= Len(s)
                     /\ \A j \in i..(i + HexLen - 1) : s[j] \in HexDigits}

Min(S) == CHOOSE x \in S : \A y \in S : x <= y

FlagPrefix == <<"_", "_", "f", "l", "a", "g", "_", "_", "{">>

FlagSuffix == <<"}">>

\* the cleaned string returned when nothing matches
correct_flag_ReturnsFiltered(flag) ==
  LET filtered == Filtered(flag)
      starts == MatchStarts(filtered)
  IN  IF starts # {}
        THEN FlagPrefix \o SubSeq(filtered, Min(starts), Min(starts) + HexLen - 1)
                        \o FlagSuffix
        ELSE filtered

\* the whole cleaned string wrapped instead of the match
correct_flag_WrapsFiltered(flag) ==
  LET filtered == Filtered(flag)
      starts == MatchStarts(filtered)
  IN  IF starts # {} THEN FlagPrefix \o filtered \o FlagSuffix ELSE flag

correct_flag(flag) ==
  LET filtered == Filtered(flag)
      starts == MatchStarts(filtered)
  IN  IF starts # {}
        THEN FlagPrefix \o SubSeq(filtered, Min(starts), Min(starts) + HexLen - 1)
                        \o FlagSuffix
        ELSE flag

\* ----------------------------------------------------------- the fixtures
NULL == "NULL"

HexA == [i \in 1..HexLen |-> "a"]

Hex16 ==
  <<"0", "1", "2", "3", "4", "5", "6", "7", "8", "9", "a", "b", "c", "d", "e", "f">>

Hex16Upper ==
  <<"0", "1", "2", "3", "4", "5", "6", "7", "8", "9", "A", "B", "C", "D", "E", "F">>

\* two generated flags and one flag with an explicit value (create_flag)
FlagA == FlagPrefix \o HexA \o FlagSuffix

FlagB == FlagPrefix \o Hex16 \o Hex16 \o FlagSuffix

FlagC == <<"s", "3", "c", "r", "e", "t">>

\* what submitters type
RawA == FlagA

RawB == <<"F", "l", "a", "g", ":", " ">> \o Hex16Upper \o <<" ">> \o Hex16 \o <<"!">>

RawC == FlagC

RawUnknown == <<"n", "o", "p", "e">>

RawFlags == {RawA, RawB, RawC, RawUnknown}

Alice == "alice"

Bob == "bob"

Carol == "carol"

Mallory == "mallory"

UserIds == {Alice, Bob, Carol, Mallory}

Workers == {"w1", "w2"}

\* the shapes of THasIP
StrSource(s) == [kind |-> "str", str |-> s]

TupleSource(host, port) == [kind |-> "tuple", host |-> host, port |-> port]

WriterSource(host, port) == [kind |-> "writer", peername |-> TupleSource(host, port)]

TransportSource(host, port) ==
  [kind |-> "transport", peername |-> TupleSource(host, port)]

RequestSource(headers, transport) ==
  [kind |-> "request", headers |-> headers, transport |-> transport]

NoHeaders == [h \in {} |-> ""]

ForwardedFor(s) == [h \in {"X-Forwarded-For"} |-> s]

\* the address-bearing object the surrounding layer passes for each submitter
SourceOf(user) ==
  CASE user = Alice -> StrSource("10.0.0.1")
    [] user = Bob -> TupleSource("10.0.0.2", 4242)
    [] user = Carol -> WriterSource("10.0.0.3", 4243)
    [] OTHER -> RequestSource(ForwardedFor("10.0.0.4"), TransportSource("10.0.0.9", 80))

VARIABLES
  users,        \* table users: set of uid
  teams,        \* table teams: set of rows [uid, tid]
  challenges,   \* table challenges: set of rows [cid, t_start, t_stop, team]
  flags,        \* table flags: set of rows [fid, cid, max_submissions]
  submissions,  \* table submissions: rows [uid, fid] in insertion order
  events,       \* table events: rows [ip, type, data, cid, uid] in rowid order
  now,          \* datetime('now')
  pc,           \* each worker's position inside submit_flag
  frame,        \* each worker's arguments (raw is the flag as passed) and locals
  result,       \* how each worker's last call ended
  overlapped,   \* whether the worker's call ran while another call was in flight
  ncalls,       \* number of submit_flag calls made so far
  arg,          \* the input of a function that is exercised on its own
  ret           \* what the successive applications of that function returned

vars ==
  <<users, teams, challenges, flags, submissions, events, now, pc, frame,
    result, overlapped, ncalls, arg, ret>>

store == <<users, teams, challenges, flags>>

NoFrame ==
  [raw |-> <<>>, flag |-> <<>>, user |-> NULL, ip |-> StrSource(""), force |-> FALSE,
   cid |-> NULL]

NoResult == [kind |-> "none", value |-> ""]

Construction ==
  /\ users = {Alice, Bob, Carol}
  /\ teams = {[uid |-> Alice, tid |-> "t1"], [uid |-> Bob, tid |-> "t1"]}
  /\ challenges =
       {[cid |-> "c1", t_start |-> 0, t_stop |-> 1, team |-> 1],
        [cid |-> "c2", t_start |-> 1, t_stop |-> 1, team |-> 0]}
  /\ flags =
       {[fid |-> FlagA, cid |-> "c1", max_submissions |-> 1],
        [fid |-> FlagB, cid |-> "c1", max_submissions |-> 2],
        [fid |-> FlagC, cid |-> "c2", max_submissions |-> 1]}
  /\ submissions = <<>>
  /\ events = <<>>
  /\ now = 0
  /\ pc = [w \in Workers |-> "idle"]
  /\ frame = [w \in Workers |-> NoFrame]
  /\ result = [w \in Workers |-> NoResult]
  /\ overlapped = [w \in Workers |-> FALSE]
  /\ ncalls = 0

Init == Construction /\ arg = <<>> /\ ret = <<>>

\* -------------------------------------------------------------- the audit log
\* the transport-level peer preferred over the forwarding header
ExtractIp_TransportFirst(ip) ==
  LET a == IF ip.kind = "request" THEN ip.transport ELSE ip
      b == IF a.kind \in {"writer", "transport"} THEN a.peername ELSE a
      c == IF b.kind = "tuple" THEN StrSource(b.host) ELSE b
  IN  IF c.kind = "str" THEN c.str ELSE c

\* log, lines 248-253: reduce the source to an address
ExtractIp(ip) ==
  LET a == IF ip.kind = "request"
             THEN IF "X-Forwarded-For" \in DOMAIN ip.headers
                    THEN StrSource(ip.headers["X-Forwarded-For"])
                    ELSE ip.transport
             ELSE ip
      b == IF a.kind \in {"writer", "transport"} THEN a.peername ELSE a
      c == IF b.kind = "tuple" THEN StrSource(b.host) ELSE b
  IN  IF c.kind = "str" THEN c.str ELSE c

\* log, lines 254-258: the events table after the INSERT and the commit
log(ip, type, data, cid, uid) ==
  Append(events,
         [ip |-> ExtractIp(ip), type |-> type, data |-> data, cid |-> cid, uid |-> uid])

\* ------------------------------------------------------ submit_flag's queries
\* SELECT 1 FROM users WHERE uid = ?
user_exists(user) == user \in users

\* SELECT cid FROM flags NATURAL INNER JOIN challenges WHERE fid = ?
\* followed by (... or [None])[0]
SelectCid(flag) ==
  LET rows == {f \in flags : f.fid = flag /\ \E c \in challenges : c.cid = f.cid}
  IN  IF rows = {} THEN NULL ELSE (CHOOSE f \in rows : TRUE).cid

\* SELECT 1 FROM challenges WHERE cid = ? AND datetime('now') BETWEEN t_start AND t_stop
is_active(cid) ==
  \E c \in challenges : c.cid = cid /\ c.t_start <= now /\ now <= c.t_stop

\* SELECT uid FROM teams WHERE tid = (SELECT tid FROM teams WHERE uid = ?)
TeamMates(user) ==
  LET mine == {r \in teams : r.uid = user}
  IN  IF mine = {} THEN {}
      ELSE {r.uid : r \in {x \in teams : x.tid = (CHOOSE m \in mine : TRUE).tid}}

\* the rows of submissions NATURAL JOIN flags NATURAL JOIN challenges that the
\* WHERE clause of is_already_submitted keeps
CreditingRows(cid, user) ==
  {i \in 1..Len(submissions) :
     \E f \in flags : \E c \in challenges :
       /\ f.fid = submissions[i].fid
       /\ c.cid = f.cid
       /\ c.cid = cid
       /\ \/ submissions[i].uid = user
          \/ c.team = 1 /\ submissions[i].uid \in TeamMates(user)}

\* SELECT COUNT(*) ... , tested for truth
is_already_submitted(cid, user) == Cardinality(CreditingRows(cid, user)) # 0

\* SELECT COUNT(*) FROM submissions WHERE flags.fid = submissions.fid
SubmissionCount(fid) ==
  Cardinality({i \in 1..Len(submissions) : submissions[i].fid = fid})

\* the cap applied one submission early: the count after the insert compared
is_oversubscribed_early(flag) ==
  \E f \in flags : f.fid = flag /\ SubmissionCount(f.fid) + 1 >= f.max_submissions

\* the comparison off by one: > for >=
is_oversubscribed_gt(flag) ==
  \E f \in flags : f.fid = flag /\ SubmissionCount(f.fid) > f.max_submissions

\* SELECT 1 FROM flags WHERE fid = ? AND (SELECT COUNT(*) ...) >= max_submissions
is_oversubscribed(flag) ==
  \E f \in flags : f.fid = flag /\ SubmissionCount(f.fid) >= f.max_submissions

\* ---------------------------------------------------------------- has_solved
\* the team clause of the join condition left out
has_solved_OwnRowsOnly(user, challenge) ==
  Cardinality(
    {<<c, f, i>> \in challenges \X flags \X DOMAIN submissions :
       /\ c.cid = f.cid
       /\ f.fid = submissions[i].fid
       /\ submissions[i].uid = user
       /\ c.cid = challenge})

\* lines 215-229: COUNT(*) over challenges NATURAL JOIN flags INNER JOIN
\* submissions ON (...) WHERE challenges.cid = ?
has_solved(user, challenge) ==
  Cardinality(
    {<<c, f, i>> \in challenges \X flags \X DOMAIN submissions :
       /\ c.cid = f.cid
       /\ f.fid = submissions[i].fid
       /\ \/ submissions[i].uid = user
          \/ c.team = 1 /\ submissions[i].uid \in TeamMates(user)
       /\ c.cid = challenge})

\* ------------------------------------------------------------- submit_flag
InFlight(w) == pc[w] # "idle"

Raised(msg) == [kind |-> "raise", value |-> msg]

Returned(cid) == [kind |-> "return", value |-> cid]

Crashed == [kind |-> "crash", value |-> ""]

\* the call and line 374
SubmitFlag(w, flag, user, force) ==
  /\ pc[w] = "idle"
  /\ ncalls < MaxCalls
  /\ ncalls' = ncalls + 1
  /\ frame' = [frame EXCEPT ![w] =
                 [raw |-> flag, flag |-> correct_flag(flag), user |-> user,
                  ip |-> SourceOf(user), force |-> force, cid |-> NULL]]
  /\ pc' = [pc EXCEPT ![w] = "user_exists"]
  /\ result' = [result EXCEPT ![w] = NoResult]
  /\ overlapped' =
       [x \in Workers |->
          IF x = w THEN \E y \in Workers \ {w} : InFlight(y)
          ELSE IF InFlight(x) THEN TRUE ELSE overlapped[x]]
  /\ UNCHANGED <<arg, ret, store, submissions, events, now>>

\* the user check leaves out the early return
CheckUser_NoReject(w) ==
  /\ pc[w] = "user_exists"
  /\ pc' = [pc EXCEPT ![w] = "cid"]
  /\ UNCHANGED <<arg, ret, store, submissions, events, now, frame, result, overlapped, ncalls>>

\* lines 376-380
CheckUser(w) ==
  /\ pc[w] = "user_exists"
  /\ pc' = [pc EXCEPT ![w] =
              IF ~user_exists(frame[w].user) THEN "raise_unknown_user" ELSE "cid"]
  /\ UNCHANGED <<arg, ret, store, submissions, events, now, frame, result, overlapped, ncalls>>

\* lines 384-389
CheckFlag(w) ==
  /\ pc[w] = "cid"
  /\ LET cid == SelectCid(frame[w].flag)
     IN  /\ frame' = [frame EXCEPT ![w].cid = cid]
         /\ pc' = [pc EXCEPT ![w] =
                     IF cid = NULL THEN "raise_unknown_flag" ELSE "is_active"]
  /\ UNCHANGED <<arg, ret, store, submissions, events, now, result, overlapped, ncalls>>

\* the already-solved check placed before the window check
CheckActive_SolvedFirst(w) ==
  /\ pc[w] = "is_active"
  /\ pc' = [pc EXCEPT ![w] =
              IF is_already_submitted(frame[w].cid, frame[w].user) THEN "raise_solved"
              ELSE IF ~is_active(frame[w].cid) /\ ~frame[w].force
                THEN "raise_inactive" ELSE "is_already_submitted"]
  /\ UNCHANGED <<arg, ret, store, submissions, events, now, frame, result, overlapped, ncalls>>

\* lines 393-398
CheckActive(w) ==
  /\ pc[w] = "is_active"
  /\ pc' = [pc EXCEPT ![w] =
              IF ~is_active(frame[w].cid) /\ ~frame[w].force
                THEN "raise_inactive" ELSE "is_already_submitted"]
  /\ UNCHANGED <<arg, ret, store, submissions, events, now, frame, result, overlapped, ncalls>>

\* force let through the already-credited check
CheckSolved_ForceBypasses(w) ==
  /\ pc[w] = "is_already_submitted"
  /\ pc' = [pc EXCEPT ![w] =
              IF is_already_submitted(frame[w].cid, frame[w].user) /\ ~frame[w].force
                THEN "raise_solved" ELSE "is_oversubscribed"]
  /\ UNCHANGED <<arg, ret, store, submissions, events, now, frame, result, overlapped, ncalls>>

\* lines 402-411
CheckSolved(w) ==
  /\ pc[w] = "is_already_submitted"
  /\ pc' = [pc EXCEPT ![w] =
              IF is_already_submitted(frame[w].cid, frame[w].user)
                THEN "raise_solved" ELSE "is_oversubscribed"]
  /\ UNCHANGED <<arg, ret, store, submissions, events, now, frame, result, overlapped, ncalls>>

\* force not honoured by the oversubscription check
CheckOversubscribed_IgnoresForce(w) ==
  /\ pc[w] = "is_oversubscribed"
  /\ pc' = [pc EXCEPT ![w] =
              IF is_oversubscribed(frame[w].flag) THEN "raise_used" ELSE "log_submit"]
  /\ UNCHANGED <<arg, ret, store, submissions, events, now, frame, result, overlapped, ncalls>>

\* lines 415-420
CheckOversubscribed(w) ==
  /\ pc[w] = "is_oversubscribed"
  /\ pc' = [pc EXCEPT ![w] =
              IF is_oversubscribed(frame[w].flag) /\ ~frame[w].force
                THEN "raise_used" ELSE "log_submit"]
  /\ UNCHANGED <<arg, ret, store, submissions, events, now, frame, result, overlapped, ncalls>>

\* the unverified uid attached to the event of the unknown-user rejection
Rejection_UidOfUnknownUser(at, fr) ==
  CASE at = "raise_unknown_user" ->
         [type |-> "flag-err-unknown", uid |-> fr.user, cid |-> NULL,
          msg |-> "Unknown user."]
    [] at = "raise_unknown_flag" ->
         [type |-> "flag-err-unknown", uid |-> fr.user, cid |-> NULL,
          msg |-> "Unknown Flag ¯\\_(ツ)_/¯"]
    [] at = "raise_inactive" ->
         [type |-> "flag-err-inactive", uid |-> fr.user, cid |-> fr.cid,
          msg |-> "Challenge is not active."]
    [] at = "raise_solved" ->
         [type |-> "flag-err-solved", uid |-> fr.user, cid |-> fr.cid,
          msg |-> "Challenge already solved."]
    [] at = "raise_used" ->
         [type |-> "flag-err-used", uid |-> fr.user, cid |-> fr.cid,
          msg |-> "Flag already used too often."]

\* the audit types of the solved and the used rejection exchanged
Rejection_SwappedTypes(at, fr) ==
  CASE at = "raise_unknown_user" ->
         [type |-> "flag-err-unknown", uid |-> NULL, cid |-> NULL,
          msg |-> "Unknown user."]
    [] at = "raise_unknown_flag" ->
         [type |-> "flag-err-unknown", uid |-> fr.user, cid |-> NULL,
          msg |-> "Unknown Flag ¯\\_(ツ)_/¯"]
    [] at = "raise_inactive" ->
         [type |-> "flag-err-inactive", uid |-> fr.user, cid |-> fr.cid,
          msg |-> "Challenge is not active."]
    [] at = "raise_solved" ->
         [type |-> "flag-err-used", uid |-> fr.user, cid |-> fr.cid,
          msg |-> "Challenge already solved."]
    [] at = "raise_used" ->
         [type |-> "flag-err-solved", uid |-> fr.user, cid |-> fr.cid,
          msg |-> "Flag already used too often."]

\* the r8.log call and the ValueError of each rejection
Rejection(at, fr) ==
  CASE at = "raise_unknown_user" ->
         [type |-> "flag-err-unknown", uid |-> NULL, cid |-> NULL,
          msg |-> "Unknown user."]
    [] at = "raise_unknown_flag" ->
         [type |-> "flag-err-unknown", uid |-> fr.user, cid |-> NULL,
          msg |-> "Unknown Flag ¯\\_(ツ)_/¯"]
    [] at = "raise_inactive" ->
         [type |-> "flag-err-inactive", uid |-> fr.user, cid |-> fr.cid,
          msg |-> "Challenge is not active."]
    [] at = "raise_solved" ->
         [type |-> "flag-err-solved", uid |-> fr.user, cid |-> fr.cid,
          msg |-> "Challenge already solved."]
    [] at = "raise_used" ->
         [type |-> "flag-err-used", uid |-> fr.user, cid |-> fr.cid,
          msg |-> "Flag already used too often."]

RaiseSites ==
  {"raise_unknown_user", "raise_unknown_flag", "raise_inactive", "raise_solved",
   "raise_used"}

\* the event left to the outer with block, whose rollback on the ValueError
\* discards it
LogAndRaise_RolledBack(w) ==
  /\ pc[w] \in RaiseSites
  /\ result' = [result EXCEPT ![w] = Raised(Rejection(pc[w], frame[w]).msg)]
  /\ pc' = [pc EXCEPT ![w] = "idle"]
  /\ UNCHANGED <<arg, ret, store, submissions, events, now, frame, overlapped, ncalls>>

\* lines 381-382, 390-391, 399-400, 412-413, 421-422: log commits the event,
\* then the ValueError leaves the outer with block, whose rollback finds no
\* open transaction
LogAndRaise(w) ==
  /\ pc[w] \in RaiseSites
  /\ LET r == Rejection(pc[w], frame[w])
     IN  /\ events' = log(frame[w].ip, r.type, frame[w].flag, r.cid, r.uid)
         /\ result' = [result EXCEPT ![w] = Raised(r.msg)]
  /\ pc' = [pc EXCEPT ![w] = "idle"]
  /\ UNCHANGED <<arg, ret, store, submissions, now, frame, overlapped, ncalls>>

\* line 424: the flag-submit event, committed by log's own with block
LogSubmit(w) ==
  /\ pc[w] = "log_submit"
  /\ events' = log(frame[w].ip, "flag-submit", frame[w].flag, frame[w].cid,
                   frame[w].user)
  /\ pc' = [pc EXCEPT ![w] = "insert"]
  /\ UNCHANGED <<arg, ret, store, submissions, now, frame, result, overlapped, ncalls>>

\* INSERT OR REPLACE on a table keyed by fid: the flag's earlier rows go
InsertRow_Replace(uid, fid) ==
  Append(SelectSeq(submissions, LAMBDA r : r.fid # fid), [uid |-> uid, fid |-> fid])

\* INSERT INTO submissions (uid, fid) VALUES (?, ?)
InsertRow(uid, fid) == Append(submissions, [uid |-> uid, fid |-> fid])

\* lines 425-428: the INSERT, the commit on leaving the with block, the return
InsertSubmission(w) ==
  /\ pc[w] = "insert"
  /\ submissions' = InsertRow(frame[w].user, frame[w].flag)
  /\ result' = [result EXCEPT ![w] = Returned(frame[w].cid)]
  /\ pc' = [pc EXCEPT ![w] = "idle"]
  /\ UNCHANGED <<arg, ret, store, events, now, frame, overlapped, ncalls>>

\* the worker dies inside the call; what was committed stays
Crash(w) ==
  /\ InFlight(w)
  /\ pc' = [pc EXCEPT ![w] = "idle"]
  /\ result' = [result EXCEPT ![w] = Crashed]
  /\ UNCHANGED <<arg, ret, store, submissions, events, now, frame, overlapped, ncalls>>

\* the clock behind datetime('now')
Tick ==
  /\ now < MaxTime
  /\ now' = now + 1
  /\ UNCHANGED <<arg, ret, store, submissions, events, pc, frame, result, overlapped, ncalls>>

Step(w) ==
  \/ CheckUser(w)
  \/ CheckFlag(w)
  \/ CheckActive(w)
  \/ CheckSolved(w)
  \/ CheckOversubscribed(w)
  \/ LogAndRaise(w)
  \/ LogSubmit(w)
  \/ InsertSubmission(w)

Next ==
  \/ \E w \in Workers, flag \in RawFlags, user \in UserIds, force \in BOOLEAN :
       SubmitFlag(w, flag, user, force)
  \/ \E w \in Workers : Step(w)
  \/ \E w \in Workers : Crash(w)
  \/ Tick

Spec == Init /\ [][Next]_vars

\* one call at a time through one connection, as in a single event loop
AllIdle == \A w \in Workers : pc[w] = "idle"

SeqNext ==
  \/ \E flag \in RawFlags, user \in UserIds, force \in BOOLEAN :
       AllIdle /\ SubmitFlag("w1", flag, user, force)
  \/ Step("w1")
  \/ AllIdle /\ Tick

SeqSpec == Init /\ [][SeqNext]_vars

\* ------------------------------------------------ correct_flag on its own
\* What a user pastes: something before, a body, something after.
BeforeFlag ==
  {<<>>,
   <<" ", "M", "Y", " ", "F", "L", "A", "G", " ", "I", "S", " ">>,
   <<"F", "l", "a", "g", ":", " ">>,
   <<"c", "a", "f", "e", " ">>,
   <<"\t">>,
   FlagPrefix}

FlagBodies ==
  {HexA,
   Hex16 \o Hex16,
   Hex16Upper \o Hex16,
   Hex16 \o <<" ">> \o Hex16Upper,
   Hex16 \o <<"\t">> \o Hex16,
   Hex16 \o <<"\n">> \o Hex16,
   SubSeq(HexA, 1, HexLen - 1),
   Hex16 \o <<"g">> \o SubSeq(Hex16, 1, 15),
   <<>>}

AfterFlag == {<<>>, <<"!", "!">>, <<"\n">>, <<"0">>, FlagSuffix}

PastedFlags == [before : BeforeFlag, body : FlagBodies, after : AfterFlag]

Pasted(a) == a.before \o a.body \o a.after

FlagInit == Construction /\ arg \in PastedFlags /\ ret = <<>>

\* correct_flag applied to the pasted text, then to its own result
CorrectFlag ==
  /\ Len(ret) < MaxApply
  /\ ret' = Append(ret, correct_flag(IF ret = <<>> THEN Pasted(arg) ELSE ret[Len(ret)]))
  /\ UNCHANGED <<arg, store, submissions, events, now, pc, frame, result, overlapped,
                 ncalls>>

FlagSpec == FlagInit /\ [][CorrectFlag]_vars

\* --------------------------------------------------------- log on its own
Hosts == {"10.0.0.1", "203.0.113.7", "::1", "proxy.example.org"}

Ports == {80, 4242}

\* what a proxy puts in X-Forwarded-For: one address or a chain of them
ForwardedValues == Hosts \cup {"203.0.113.7, 10.0.0.1"}

Transports == {TransportSource(h, p) : h \in Hosts, p \in Ports}

IpSources ==
  {StrSource(h) : h \in Hosts}
    \cup {TupleSource(h, p) : h \in Hosts, p \in Ports}
    \cup {WriterSource(h, p) : h \in Hosts, p \in Ports}
    \cup Transports
    \cup {RequestSource(NoHeaders, t) : t \in Transports}
    \cup {RequestSource(ForwardedFor(v), t) : v \in ForwardedValues, t \in Transports}

EventTypes == {"flag-submit", "flag-err-unknown"}

LogInit == Construction /\ arg \in IpSources /\ ret = <<>>

\* log(ip, type) called with the source and no data, cid or uid; the row id
\* of the new event is returned
Log(type) ==
  /\ Len(events) < MaxApply
  /\ events' = log(arg, type, NULL, NULL, NULL)
  /\ ret' = Append(ret, Len(events'))
  /\ UNCHANGED <<arg, store, submissions, now, pc, frame, result, overlapped, ncalls>>

LogNext == \E type \in EventTypes : Log(type)

LogSpec == LogInit /\ [][LogNext]_vars

\* ----------------------------------------------------- url_for on its own
RECURSIVE RStrip(_, _)
\* str.rstrip(c)
RStrip(s, c) ==
  IF s # <<>> /\ s[Len(s)] = c THEN RStrip(SubSeq(s, 1, Len(s) - 1), c) ELSE s

RECURSIVE LStrip(_, _)
\* str.lstrip(c)
LStrip(s, c) == IF s # <<>> /\ s[1] = c THEN LStrip(Tail(s), c) ELSE s

\* c in s
Contains(s, c) == \E i \in 1..Len(s) : s[i] = c

\* _get_origin: R8_ORIGIN without trailing slashes, the empty string when the
\* variable is unset or empty
get_origin(env) ==
  LET origin == RStrip(env, "/")
  IN  IF origin = <<>> THEN <<>> ELSE origin

\* the signature itsdangerous derives from the value and the secret: base64
\* over the URL-safe alphabet, opaque here
Signature(value) ==
  IF Len(value) % 2 = 0 THEN <<"Z", "m", "9", "v", "-", "Q">>
                        ELSE <<"Y", "m", "F", "y", "_", "w">>

\* auth_sign.sign(value): the value itself, the separator, the signature
sign(value) == value \o <<".">> \o Signature(value)

url_for(env, user, path) ==
  LET origin == get_origin(env)
      token == sign(user)
      stripped == LStrip(path, "/")
      joined == IF Contains(stripped, "?")
                  THEN stripped \o <<"&", "t", "o", "k", "e", "n", "=">> \o token
                  ELSE stripped \o <<"?", "t", "o", "k", "e", "n", "=">> \o token
  IN  origin \o <<"/">> \o joined

\* values of R8_ORIGIN; the empty one stands for an unset variable
Origins ==
  {<<>>,
   <<"h", "t", "t", "p", ":", "/", "/", "h">>,
   <<"h", "t", "t", "p", ":", "/", "/", "h", "/">>,
   <<"h", "t", "t", "p", "s", ":", "/", "/", "h", ":", "8", "/", "/">>,
   <<"h", "t", "t", "p", ":", "/", "/", "h", "/", "c", "t", "f">>}

\* user ids a link is made for
UrlUsers ==
  {<<"a", "l", "i", "c", "e">>,
   <<"b", "o", "b">>,
   <<"7">>,
   <<"a", "?", "b">>}

\* paths with and without a query string
Paths ==
  {<<>>,
   <<"a">>,
   <<"/", "a">>,
   <<"/", "/", "a", "/", "b">>,
   <<"a", "?", "x", "=", "1">>,
   <<"/", "a", "?", "x", "=", "1">>,
   <<"a", "?">>,
   <<"?", "x">>,
   <<"a", "?", "x", "?", "y">>}

UrlInputs == [origin : Origins, user : UrlUsers, path : Paths]

UrlInit == Construction /\ arg \in UrlInputs /\ ret = <<>>

\* url_for(user, path) under the environment's R8_ORIGIN
UrlFor ==
  /\ Len(ret) < MaxApply
  /\ ret' = Append(ret, url_for(arg.origin, arg.user, arg.path))
  /\ UNCHANGED <<arg, store, submissions, events, now, pc, frame, result, overlapped,
                 ncalls>>

UrlSpec == UrlInit /\ [][UrlFor]_vars

\* ------------------------------------------------- vocabulary of the claims
Done(w) == pc[w] = "idle" /\ result[w].kind \in {"return", "raise"}

\* the worker's call ends in this step, by a return or a ValueError
Completes(w) == InFlight(w) /\ pc'[w] = "idle" /\ result'[w].kind \in {"return", "raise"}

KnownUser(u) == \E x \in users : x = u

FlagRows(fid) == {f \in flags : f.fid = fid}

KnownFlag(fid) == FlagRows(fid) # {}

ChallengeOf(fid) == (CHOOSE f \in FlagRows(fid) : TRUE).cid

CapOf(fid) == (CHOOSE f \in FlagRows(fid) : TRUE).max_submissions

TeamScoped(cid) == \E c \in challenges : c.cid = cid /\ c.team = 1

InWindow(cid) == \E c \in challenges : c.cid = cid /\ ~(now < c.t_start) /\ ~(c.t_stop < now)

SameTeam(u, v) == \E r \in teams, q \in teams : r.uid = u /\ q.uid = v /\ r.tid = q.tid

RowsOf(fid) == {i \in DOMAIN submissions : submissions[i].fid = fid}

\* u, or a teammate of u when the challenge is team-scoped, has redeemed a flag of cid
Credited(u, cid) ==
  \E i \in DOMAIN submissions :
    /\ KnownFlag(submissions[i].fid)
    /\ ChallengeOf(submissions[i].fid) = cid
    /\ \/ submissions[i].uid = u
       \/ TeamScoped(cid) /\ SameTeam(u, submissions[i].uid)

Exhausted(fid) == ~(Cardinality(RowsOf(fid)) < CapOf(fid))

SubmitEvents(u, fid) ==
  {i \in DOMAIN events :
     events[i].type = "flag-submit" /\ events[i].uid = u /\ events[i].data = fid}

SubmissionRows(u, fid) ==
  {i \in DOMAIN submissions : submissions[i].uid = u /\ submissions[i].fid = fid}

Fids == {f.fid : f \in flags}

UnknownFlagMessage == "Unknown Flag ¯\\_(ツ)_/¯"

\* the step of the ordered checks at which a finished call stopped (7: commit)
StoppedAt(res) ==
  CASE res.kind = "return" -> 7
    [] res = Raised("Unknown user.") -> 2
    [] res = Raised("Challenge is not active.") -> 4
    [] res = Raised("Challenge already solved.") -> 5
    [] res = Raised("Flag already used too often.") -> 6
    [] OTHER -> 3

\* the first check, in the documented order, that fails for the call
FirstFailing(fr) ==
  IF ~KnownUser(fr.user) THEN 2
  ELSE IF ~KnownFlag(correct_flag(fr.raw)) THEN 3
  ELSE IF ~InWindow(ChallengeOf(correct_flag(fr.raw))) /\ ~fr.force THEN 4
  ELSE IF Credited(fr.user, ChallengeOf(correct_flag(fr.raw))) THEN 5
  ELSE IF Exhausted(correct_flag(fr.raw)) /\ ~fr.force THEN 6
  ELSE 7

\* ------------------------------------------------------------------ claims

\* C1: two overlapping calls by two different existing users (not teammates)
\* for the same valid flag with max_submissions = 1, force = false, challenge
\* active, nothing submitted before: exactly one returns the challenge id, the
\* other raises "Flag already used too often.", and the flag never has more
\* than one submission row.
C1_LastSlotRace ==
  \A w \in Workers, v \in Workers :
    ( /\ w # v
      /\ ncalls = 2
      /\ overlapped[w] /\ overlapped[v]
      /\ frame[w].flag = FlagA /\ frame[v].flag = FlagA
      /\ frame[w].user = Alice /\ frame[v].user = Carol
      /\ ~frame[w].force /\ ~frame[v].force
      /\ InWindow("c1") )
    => /\ Cardinality(RowsOf(FlagA)) <= 1
       /\ (Done(w) /\ Done(v)) =>
            \/ /\ result[w] = Returned("c1")
               /\ result[v] = Raised("Flag already used too often.")
            \/ /\ result[v] = Returned("c1")
               /\ result[w] = Raised("Flag already used too often.")

\* C2: whenever no call is in flight, also after a crash inside a call, the
\* flag-submit events of each (user, flag) and the submission rows of that
\* (user, flag) are persisted together: there are as many of the one as of
\* the other.
C2_EventAndRowAtomic ==
  AllIdle =>
    \A u \in UserIds, fid \in Fids :
      Cardinality(SubmitEvents(u, fid)) = Cardinality(SubmissionRows(u, fid))

\* C3 as stated: in every state reached by submit_flag calls with any
\* arguments, each flag has at most max_submissions submission rows.
C3_CapAnyArguments ==
  \A f \in flags : Cardinality(RowsOf(f.fid)) <= f.max_submissions

\* C3 amended: a call with force = false that commits leaves its flag with at
\* most max_submissions rows, counted across all users.
C3_CapWithoutForce ==
  [][\A w \in Workers :
       (Completes(w) /\ result'[w].kind = "return" /\ ~frame[w].force)
       => Cardinality(RowsOf(frame[w].flag))' <= CapOf(frame[w].flag)]_vars

\* a call without force has taken the last slot of a flag
C3_Witness ==
  \E w \in Workers :
    /\ Done(w) /\ result[w].kind = "return" /\ ~frame[w].force
    /\ Cardinality(RowsOf(frame[w].flag)) = CapOf(frame[w].flag)
    /\ Len(submissions) = 2

\* C4: a call is rejected with the reason of the first failing check in the
\* order user, flag, window, already credited, oversubscribed: an unknown user
\* gives "Unknown user." whatever the flag, an inactive and solved challenge
\* gives "Challenge is not active." without force, a credited user with an
\* exhausted flag gives "Challenge already solved.".
C4_CheckOrder ==
  [][\A w \in Workers :
       Completes(w) =>
         LET fr == frame[w]
             fid == correct_flag(fr.raw)
         IN  /\ StoppedAt(result'[w]) = FirstFailing(fr)
             /\ ~KnownUser(fr.user) => result'[w] = Raised("Unknown user.")
             /\ ( /\ KnownUser(fr.user) /\ KnownFlag(fid) /\ ~fr.force
                  /\ ~InWindow(ChallengeOf(fid))
                  /\ Credited(fr.user, ChallengeOf(fid)) )
                => result'[w] = Raised("Challenge is not active.")
             /\ ( /\ KnownUser(fr.user) /\ KnownFlag(fid)
                  /\ (InWindow(ChallengeOf(fid)) \/ fr.force)
                  /\ Credited(fr.user, ChallengeOf(fid))
                  /\ Exhausted(fid) )
                => result'[w] = Raised("Challenge already solved.")]_vars

\* a call for a challenge that is both solved by the caller and outside its
\* window has been rejected as inactive
C4_Witness ==
  \E w \in Workers :
    /\ Done(w)
    /\ result[w] = Raised("Challenge is not active.")
    /\ Credited(frame[w].user, ChallengeOf(frame[w].flag))

\* the submission rows that members of the team of u hold for flags of cid
TeamRows(u, cid) ==
  {i \in DOMAIN submissions :
     /\ KnownFlag(submissions[i].fid)
     /\ ChallengeOf(submissions[i].fid) = cid
     /\ SameTeam(u, submissions[i].uid)}

\* C5: once a member of a team has a submission for a flag of a team-scoped
\* challenge, teammates are rejected, so that no team ever holds more than
\* one submission row across the flags of a team-scoped challenge.
C5_OneRowPerTeam ==
  \A c \in challenges, r \in teams :
    c.team = 1 => Cardinality(TeamRows(r.uid, c.cid)) <= 1

\* C6: two members of one team, in overlapping calls with valid flags of the
\* same active team-scoped challenge that the team has not solved: at most
\* one call commits, the other is rejected with "Challenge already solved.".
C6_TeamRace ==
  \A w \in Workers, v \in Workers :
    ( /\ w # v
      /\ ncalls = 2
      /\ overlapped[w] /\ overlapped[v]
      /\ Done(w) /\ Done(v)
      /\ frame[w].user # frame[v].user
      /\ SameTeam(frame[w].user, frame[v].user)
      /\ KnownFlag(frame[w].flag) /\ KnownFlag(frame[v].flag)
      /\ ChallengeOf(frame[w].flag) = "c1" /\ ChallengeOf(frame[v].flag) = "c1"
      /\ InWindow("c1")
      /\ result[w].kind = "return" )
    => result[v] = Raised("Challenge already solved.")

\* C7: force = true suppresses the window check and the oversubscription
\* check only: a forced call of an existing user with an existing flag whose
\* challenge is not yet credited to the user (or team) commits whatever the
\* time and the flag's count, where the unforced call outside the window is
\* rejected as inactive; unknown user, unknown flag and already credited are
\* rejected with force as without.
C7_ForceBypassesWindowAndCap ==
  [][\A w \in Workers :
       Completes(w) =>
         LET fr == frame[w]
             fid == correct_flag(fr.raw)
         IN  /\ ( /\ fr.force /\ KnownUser(fr.user) /\ KnownFlag(fid)
                  /\ ~Credited(fr.user, ChallengeOf(fid)) )
                => result'[w] = Returned(ChallengeOf(fid))
             /\ ( /\ ~fr.force /\ KnownUser(fr.user) /\ KnownFlag(fid)
                  /\ ~InWindow(ChallengeOf(fid)) )
                => result'[w] = Raised("Challenge is not active.")
             /\ ~KnownUser(fr.user) => result'[w] = Raised("Unknown user.")
             /\ (KnownUser(fr.user) /\ ~KnownFlag(fid))
                => result'[w] = Raised(UnknownFlagMessage)
             /\ ( /\ fr.force /\ KnownUser(fr.user) /\ KnownFlag(fid)
                  /\ Credited(fr.user, ChallengeOf(fid)) )
                => result'[w] = Raised("Challenge already solved.")
             /\ ( /\ ~fr.force /\ KnownUser(fr.user) /\ KnownFlag(fid)
                  /\ InWindow(ChallengeOf(fid))
                  /\ Credited(fr.user, ChallengeOf(fid)) )
                => result'[w] = Raised("Challenge already solved.")]_vars

\* a forced call has committed outside the window on a flag already at its cap
C7_Witness ==
  \E w \in Workers :
    /\ Done(w) /\ frame[w].force /\ result[w].kind = "return"
    /\ ~InWindow(ChallengeOf(frame[w].flag))
    /\ Cardinality(RowsOf(frame[w].flag)) > CapOf(frame[w].flag)

\* C8: every call that ends, by a commit or by one of the rejections, has
\* appended exactly one event, and no step changes or removes an event
\* already in the log; the event of a rejected call stays after the error.
C8_OneEventPerCall ==
  [][/\ Len(events') >= Len(events)
     /\ Len(events') <= Len(events) + 1
     /\ SubSeq(events', 1, Len(events)) = events
     /\ \A w \in Workers : Completes(w) => Len(events') = ncalls']_vars

\* a rejected call has ended after an earlier call, and both events are there
C8_Witness ==
  \E w \in Workers :
    /\ Done(w) /\ result[w].kind = "raise"
    /\ ncalls = 2 /\ Len(events) = 2
    /\ events[2].type # "flag-submit"

\* the rows of the error table
ErrorTable(unknownFlagMsg) ==
  {[cause |-> "user", type |-> "flag-err-unknown", msg |-> "Unknown user."],
   [cause |-> "flag", type |-> "flag-err-unknown", msg |-> unknownFlagMsg],
   [cause |-> "window", type |-> "flag-err-inactive", msg |-> "Challenge is not active."],
   [cause |-> "credited", type |-> "flag-err-solved", msg |-> "Challenge already solved."],
   [cause |-> "exhausted", type |-> "flag-err-used", msg |-> "Flag already used too often."]}

\* the condition a row of the error table is about holds for the call
CauseHolds(cause, fr) ==
  LET fid == correct_flag(fr.raw)
  IN  CASE cause = "user" -> ~KnownUser(fr.user)
        [] cause = "flag" -> KnownUser(fr.user) /\ ~KnownFlag(fid)
        [] cause = "window" -> KnownFlag(fid) /\ ~InWindow(ChallengeOf(fid))
        [] cause = "credited" -> KnownFlag(fid) /\ Credited(fr.user, ChallengeOf(fid))
        [] cause = "exhausted" -> KnownFlag(fid) /\ Exhausted(fid)

\* the call that ends in this step raises the message and has logged the type
\* of one row of the table, whose condition holds; a commit has logged
\* flag-submit
FollowsTable(unknownFlagMsg) ==
  \A w \in Workers :
    Completes(w) =>
      LET e == events'[Len(events')]
      IN  /\ result'[w].kind = "raise" =>
               \E row \in ErrorTable(unknownFlagMsg) :
                 /\ row.msg = result'[w].value
                 /\ row.type = e.type
                 /\ CauseHolds(row.cause, frame[w])
          /\ result'[w].kind = "return" => e.type = "flag-submit"

C10_Frame ==
  [][/\ store' = store
     /\ \A w \in Workers :
          Completes(w) =>
            IF result'[w].kind = "raise"
              THEN submissions' = submissions
              ELSE submissions' =
                     Append(submissions,
                            [uid |-> frame[w].user, fid |-> correct_flag(frame[w].raw)])
     /\ (\A w \in Workers : ~Completes(w)) => submissions' = submissions]_vars

\* a call has returned and its row follows the row of an earlier call for the
\* same flag
C10_Witness ==
  \E w \in Workers :
    /\ Done(w) /\ result[w].kind = "return"
    /\ Len(submissions) = 2
    /\ submissions[2] = [uid |-> frame[w].user, fid |-> correct_flag(frame[w].raw)]
    /\ submissions[1].fid = submissions[2].fid
    /\ frame[w].raw # frame[w].flag

\* the rows of a flag after the step
RowsAfter(fid) == {i \in DOMAIN submissions' : submissions'[i].fid = fid}

\* C11: without force, an otherwise valid submission by a user not yet
\* credited is accepted exactly while the flag has fewer than max_submissions
\* rows and rejected with "Flag already used too often." from then on: the
\* submission that reaches the cap is accepted, the next one is rejected.
C11_CapBoundary ==
  [][\A w \in Workers :
       Completes(w) =>
         LET fr == frame[w]
             fid == correct_flag(fr.raw)
         IN  ( /\ ~fr.force /\ KnownUser(fr.user) /\ KnownFlag(fid)
               /\ InWindow(ChallengeOf(fid))
               /\ ~Credited(fr.user, ChallengeOf(fid)) )
             => IF Cardinality(RowsOf(fid)) < CapOf(fid)
                  THEN /\ result'[w] = Returned(ChallengeOf(fid))
                       /\ Cardinality(RowsAfter(fid)) = Cardinality(RowsOf(fid)) + 1
                  ELSE /\ result'[w] = Raised("Flag already used too often.")
                       /\ Cardinality(RowsAfter(fid)) = Cardinality(RowsOf(fid))]_vars

\* the first user took the only slot of a flag and a second, distinct user has
\* been rejected for it
C11_Witness ==
  \E w \in Workers :
    /\ Done(w) /\ ~frame[w].force
    /\ result[w] = Raised("Flag already used too often.")
    /\ Len(submissions) = 1
    /\ submissions[1].fid = frame[w].flag
    /\ submissions[1].uid # frame[w].user
    /\ CapOf(frame[w].flag) = 1

\* C12: every submission row has a uid that is in users and an fid that is
\* in flags and belongs to a challenge, and had them when it was inserted;
\* no row is made for an unknown user or an unknown flag, also not by force.
C12_RowsReferenceStore ==
  /\ [](\A i \in DOMAIN submissions :
          /\ KnownUser(submissions[i].uid)
          /\ KnownFlag(submissions[i].fid)
          /\ \E c \in challenges : c.cid = ChallengeOf(submissions[i].fid))
  /\ [][\A w \in Workers :
          (frame[w].force /\ (~KnownUser(frame[w].user) \/ ~KnownFlag(frame[w].flag)))
          => (Completes(w) => (result'[w].kind = "raise" /\ submissions' = submissions))]_vars

\* a forced call has inserted the only row, after the call of an unknown user
\* was turned away
C12_Witness ==
  \E w \in Workers :
    /\ Done(w) /\ frame[w].force /\ result[w].kind = "return"
    /\ Len(submissions) = 1
    /\ Len(events) = 2
    /\ events[1].uid = NULL

\* C15: the event of an unknown-user rejection carries neither uid nor cid,
\* the event of an unknown-flag rejection carries the uid and no cid, the
\* events of the inactive, solved, used and committed outcomes carry the uid
\* and the cid of the flag; the data of every event is the normalized flag.
C15_EventFields ==
  [][\A w \in Workers :
       Completes(w) =>
         LET fr == frame[w]
             fid == correct_flag(fr.raw)
             e == events'[Len(events')]
         IN  /\ e.data = fid
             /\ IF ~KnownUser(fr.user)
                  THEN e.uid = NULL /\ e.cid = NULL
                  ELSE IF ~KnownFlag(fid)
                    THEN e.uid = fr.user /\ e.cid = NULL
                    ELSE /\ e.uid = fr.user
                         /\ e.cid = ChallengeOf(fid)
                         /\ e.type \in {"flag-err-inactive", "flag-err-solved",
                                        "flag-err-used", "flag-submit"}]_vars

\* an unknown flag has been rejected and logged with the submitter's uid, and
\* the rejection of an unknown user is in the log without uid
C15_Witness ==
  \E w \in Workers :
    /\ Done(w) /\ KnownUser(frame[w].user) /\ ~KnownFlag(frame[w].flag)
    /\ events[Len(events)].type = "flag-err-unknown"
    /\ events[Len(events)].uid = frame[w].user
    /\ events[Len(events)].data = frame[w].raw
    /\ \E i \in DOMAIN events : events[i].data # <<>> /\ events[i].uid = NULL

\* the rows a user holds for the flags of a challenge
OwnRows(u, cid) ==
  {i \in DOMAIN submissions :
     /\ submissions[i].uid = u
     /\ KnownFlag(submissions[i].fid)
     /\ ChallengeOf(submissions[i].fid) = cid}

C20_HasSolvedAgrees ==
  [][\A w \in Workers :
       Completes(w) =>
         LET fr == frame[w]
         IN  /\ ( /\ KnownUser(fr.user) /\ KnownFlag(fr.flag)
                  /\ (InWindow(ChallengeOf(fr.flag)) \/ fr.force) )
                => ( has_solved(fr.user, ChallengeOf(fr.flag)) # 0
                     <=> result'[w] = Raised("Challenge already solved.") )
             /\ result'[w].kind = "return" =>
                  \A u \in users :
                    (u = fr.user \/ (TeamScoped(ChallengeOf(fr.flag)) /\ SameTeam(u, fr.user)))
                    => has_solved(u, ChallengeOf(frame[w].flag))' # 0]_vars

\* a teammate of the submitter has been rejected for a team-scoped challenge
\* without holding a row, has_solved being truthy for both
C20_Witness ==
  \E w \in Workers :
    /\ Done(w)
    /\ result[w] = Raised("Challenge already solved.")
    /\ OwnRows(frame[w].user, ChallengeOf(frame[w].flag)) = {}
    /\ has_solved(frame[w].user, ChallengeOf(frame[w].flag)) # 0
    /\ has_solved(submissions[1].uid, ChallengeOf(frame[w].flag)) # 0

Whitespace == {" ", "\t", "\n"}

IsHex(c) == LowerChar(c) \in HexDigits

LowerAll(s) == [i \in 1..Len(s) |-> LowerChar(s[i])]

\* 32 hexadecimal characters of either case, nothing between them
IsHexRun(s) == Len(s) = HexLen /\ \A i \in 1..Len(s) : IsHex(s[i])

Canonical(hex) == <<"_", "_", "f", "l", "a", "g", "_", "_", "{">> \o hex \o <<"}">>

\* the text with all whitespace removed and lowercased
Cleaned(s) == LowerAll(SelectSeq(s, LAMBDA c : c \notin Whitespace))

HasHexRun(s) ==
  \E i \in 1..Len(s) :
    i + HexLen - 1 <= Len(s) /\ \A j \in i..(i + HexLen - 1) : s[j] \in HexDigits

\* the body is a run of the text: no hexadecimal character touches it
RunInNoise(a) ==
  /\ IsHexRun(a.body)
  /\ a.before # <<>> => ~IsHex(a.before[Len(a.before)])
  /\ a.after # <<>> => ~IsHex(a.after[1])

\* the last character before the body that is not a space, if any, is not
\* hexadecimal
NoHexBeforeSpaces(a) ==
  LET kept == SelectSeq(a.before, LAMBDA c : c # " ")
  IN  kept # <<>> => ~IsHex(kept[Len(kept)])

\* C13 as stated: a text with a run of 32 hexadecimal characters in arbitrary
\* noise normalizes to the canonical form of that run in lowercase; a text
\* with no such run after cleaning is returned unchanged.
C13_RunInAnyNoise ==
  ret # <<>> =>
    /\ RunInNoise(arg) => ret[1] = Canonical(LowerAll(arg.body))
    /\ ~HasHexRun(Cleaned(Pasted(arg))) => ret[1] = Pasted(arg)

\* C13 amended: the same, for a run whose nearest preceding character other
\* than a space is not hexadecimal.
C13_RunInNoise ==
  ret # <<>> =>
    /\ (RunInNoise(arg) /\ NoHexBeforeSpaces(arg))
       => ret[1] = Canonical(LowerAll(arg.body))
    /\ ~HasHexRun(Cleaned(Pasted(arg))) => ret[1] = Pasted(arg)

\* a mixed-case run between words and punctuation has been normalized
C13_Witness ==
  /\ ret # <<>>
  /\ RunInNoise(arg) /\ NoHexBeforeSpaces(arg)
  /\ Len(arg.before) > 1 /\ arg.after = <<"!", "!">>
  /\ arg.body # LowerAll(arg.body)
  /\ ret[1] = Canonical(LowerAll(arg.body))

NoWhitespace(s) == SelectSeq(s, LAMBDA c : c \notin Whitespace)

OnlyWhitespace(s) == \A i \in 1..Len(s) : s[i] \in Whitespace

\* C14: 32 hexadecimal characters interrupted or surrounded by whitespace of
\* any kind (spaces, tabs, newlines) normalize to the canonical form of those
\* 32 characters.
C14_AnyWhitespaceStripped ==
  ( /\ ret # <<>>
    /\ IsHexRun(NoWhitespace(arg.body))
    /\ OnlyWhitespace(arg.before) /\ OnlyWhitespace(arg.after) )
  => ret[1] = Canonical(LowerAll(NoWhitespace(arg.body)))

\* the canonical form create_flag generates: prefix, 32 lowercase hexadecimal
\* characters, closing brace
IsCanonical(s) ==
  LET hex == SubSeq(s, Len(Canonical(<<>>)), Len(s) - 1)
  IN  /\ Len(hex) = HexLen
      /\ \A i \in 1..Len(hex) : hex[i] \in HexDigits
      /\ s = Canonical(hex)

\* C19: normalizing a normalized text changes nothing, and a canonical flag
\* is returned as it is.
C19_Idempotent ==
  /\ Len(ret) >= 2 => ret[2] = ret[1]
  /\ (ret # <<>> /\ IsCanonical(Pasted(arg))) => ret[1] = Pasted(arg)

\* a pasted text that normalization changed into a canonical flag, and the
\* canonical flag normalized again
C19_Witness ==
  /\ Len(ret) >= 2
  /\ ret[1] # Pasted(arg)
  /\ IsCanonical(ret[1])
  /\ ret[2] = ret[1]

IsText(v) == v \in Hosts \cup ForwardedValues

HasForwardingHeader(src) ==
  src.kind = "request" /\ "X-Forwarded-For" \in DOMAIN src.headers

\* the address the claim names for each shape of source
AddressOf(src) ==
  CASE HasForwardingHeader(src) -> src.headers["X-Forwarded-For"]
    [] src.kind = "request" /\ ~HasForwardingHeader(src) -> src.transport.peername.host
    [] src.kind \in {"writer", "transport"} -> src.peername.host
    [] src.kind = "tuple" -> src.host
    [] src.kind = "str" -> src.str

Count(s, c) == Cardinality({i \in 1..Len(s) : s[i] = c})

StartsWith(s, prefix) ==
  Len(prefix) <= Len(s) /\ SubSeq(s, 1, Len(prefix)) = prefix

EndsWith(s, suffix) ==
  Len(suffix) <= Len(s) /\ SubSeq(s, Len(s) - Len(suffix) + 1, Len(s)) = suffix

\* scheme and host of the configured value: trailing slashes are not part of it
OriginOf(env) ==
  LET n == CHOOSE k \in 0..Len(env) :
             /\ k > 0 => env[k] # "/"
             /\ \A i \in (k + 1)..Len(env) : env[i] = "/"
  IN  SubSeq(env, 1, n)

TokenParameter(user) == <<"t", "o", "k", "e", "n", "=">> \o sign(user)

\* C17: the URL starts with the origin, ends with the token parameter joined
\* by "&" when the path has a query string and by "?" otherwise, and holds
\* exactly one "?" when the path holds at most one.
C17_UrlJoined ==
  \A i \in DOMAIN ret :
    /\ StartsWith(ret[i], OriginOf(arg.origin))
    /\ EndsWith(ret[i],
                (IF Count(arg.path, "?") > 0 THEN <<"&">> ELSE <<"?">>)
                  \o TokenParameter(arg.user))
    /\ Count(arg.path, "?") <= 1 => Count(ret[i], "?") = 1

\* the first two parts of C17 alone
C17_JoinedOnly ==
  \A i \in DOMAIN ret :
    /\ StartsWith(ret[i], OriginOf(arg.origin))
    /\ EndsWith(ret[i],
                (IF Count(arg.path, "?") > 0 THEN <<"&">> ELSE <<"?">>)
                  \o TokenParameter(arg.user))

TypeOK ==
  /\ pc \in [Workers -> {"idle", "user_exists", "cid", "is_active",
                         "is_already_submitted", "is_oversubscribed",
                         "log_submit", "insert"} \cup RaiseSites]
  /\ ncalls \in 0..MaxCalls
  /\ now \in 0..MaxTime

====
